---- MODULE Spec2Model ----
(***************************************************************************)
(* Model of src/utils.py: the early-stopping trainer fit_best_model, the   *)
(* weight filter of load_data, the zero-value filter of receptor_data and  *)
(* the seeding blocks of set_seed.                                         *)
(***************************************************************************)
EXTENDS Integers, Sequences, FiniteSets

\* ------------------------------------------------------------------ bounds
MaxEpoch == 5
MaxPatience == 2
MaxInterval == 2
MaxScore == 2
MaxRows == 2
MaxWt == 2
MaxRecRows == 3
MaxVal == 2

\* Values model.evaluate can return for the validation metric.
Scores == 0..MaxScore
\* Values model.evaluate can return for the training metric (stored only).
TrainScores == {0, 1}

\* Python's None for best_score / best_epoch / the checkpoint content.
None == -1

VARIABLES
    \* ---- fit_best_model
    nb_epoch, patience, interval,   \* parameters
    pc,                             \* position in fit_best_model
    epoch,                          \* the loop variable (0-based)
    best_score, best_epoch, list_scores, wait,
    valid_score,                    \* line 157
    ckpt,                           \* model state held by model.ckpt (number of fitted epochs)
    fitCalls, evalCalls, ckptCalls, \* calls made on the injected model
    exception,                      \* the call whose exception is propagating
    returned, result,               \* the value handed to the caller
    \* ---- load_data
    csv, hasMolWt,                  \* the rows of the CSV file; whether it has a MolWt column
    MolWt, first_index,             \* parameters
    loadPc, loaded,                 \* position; the table returned
    \* ---- receptor_data
    df, recPc, df_receptor,         \* the input table; position; the rows kept (line 59)
    \* ---- set_seed
    tensorflow, pytorch,            \* parameters
    fails, cuda,                    \* how each source fails; torch.cuda.is_available()
    seedPc, imported, called, printed, propagated

fitVars == <<nb_epoch, patience, interval, pc, epoch, best_score, best_epoch,
             list_scores, wait, valid_score, ckpt, fitCalls, evalCalls,
             ckptCalls, exception, returned, result>>

loadVars == <<csv, hasMolWt, MolWt, first_index, loadPc, loaded>>
recVars == <<df, recPc, df_receptor>>
seedVars == <<tensorflow, pytorch, fails, cuda, seedPc, imported, called,
              printed, propagated>>

vars == <<fitVars, loadVars, recVars, seedVars>>

\* The functions that are not running.
LoadIdle ==
    /\ csv = <<>>
    /\ hasMolWt = FALSE
    /\ MolWt = 0
    /\ first_index = FALSE
    /\ loadPc = "idle"
    /\ loaded = <<>>

RecIdle ==
    /\ df = <<>>
    /\ recPc = "idle"
    /\ df_receptor = <<>>

SeedIdle ==
    /\ tensorflow = FALSE
    /\ pytorch = FALSE
    /\ fails = <<>>
    /\ cuda = FALSE
    /\ seedPc = "idle"
    /\ imported = {}
    /\ called = {}
    /\ printed = {}
    /\ propagated = FALSE

\* ------------------------------------------------------- fit_best_model

\* Variant: the test made on the 0-based loop variable.
IsCheckEpoch_ZeroBased(e, n) == e % n = 0

\* line 155: a validation check follows the fit of this iteration.
IsCheckEpoch(e, n) == (e + 1) % n = 0

\* Variant: a tie with the best counts as an improvement.
Improved_Tie(score, best) == best = None \/ score <= best

\* line 165: strict improvement, lower is better.
Improved(score, best) == best = None \/ score < best

\* Variant: one more non-improvement is tolerated.
StopNow_Late(w, p) == w > p

\* line 172: the patience test made after a non-improvement.
StopNow(w, p) == w >= p

\* Variant: the exception is swallowed and the call made again.
OnException_Swallowed(at) == at

\* lines 151-161: no handler surrounds fit or evaluate; the exception leaves
\* the function.
OnException(at) == "raised"

FitInit ==
    /\ nb_epoch \in 0..MaxEpoch
    /\ patience \in 0..MaxPatience
    /\ interval \in 1..MaxInterval
    /\ pc = "fit"
    /\ epoch = 0
    /\ best_score = None
    /\ best_epoch = None
    /\ list_scores = <<>>
    /\ wait = 0
    /\ valid_score = None
    /\ ckpt = None
    /\ fitCalls = 0
    /\ evalCalls = 0
    /\ ckptCalls = 0
    /\ exception = "none"
    /\ returned = FALSE
    /\ result = <<>>

FitIdle ==
    /\ nb_epoch = 0
    /\ patience = 0
    /\ interval = 1
    /\ pc = "idle"
    /\ epoch = 0
    /\ best_score = None
    /\ best_epoch = None
    /\ list_scores = <<>>
    /\ wait = 0
    /\ valid_score = None
    /\ ckpt = None
    /\ fitCalls = 0
    /\ evalCalls = 0
    /\ ckptCalls = 0
    /\ exception = "none"
    /\ returned = FALSE
    /\ result = <<>>

\* lines 151-155: model.fit(train_dataset, nb_epoch=1) returns.
Fit ==
    /\ pc = "fit"
    /\ epoch < nb_epoch
    /\ fitCalls' = fitCalls + 1
    /\ IF IsCheckEpoch(epoch, interval)
         THEN /\ pc' = "evalValid"
              /\ epoch' = epoch
         ELSE /\ pc' = "fit"
              /\ epoch' = epoch + 1
    /\ UNCHANGED <<nb_epoch, patience, interval, best_score, best_epoch,
                   list_scores, wait, valid_score, ckpt, evalCalls, ckptCalls,
                   exception, returned, result>>
    /\ UNCHANGED <<loadVars, recVars, seedVars>>

\* line 153: model.fit raises.
FitRaises ==
    /\ pc = "fit"
    /\ epoch < nb_epoch
    /\ fitCalls' = fitCalls + 1
    /\ exception' = "fit"
    /\ pc' = OnException("fit")
    /\ UNCHANGED <<nb_epoch, patience, interval, epoch, best_score, best_epoch,
                   list_scores, wait, valid_score, ckpt, evalCalls, ckptCalls,
                   returned, result>>
    /\ UNCHANGED <<loadVars, recVars, seedVars>>

\* lines 156-158: model.evaluate(valid_dataset, ...) returns.
EvalValid ==
    /\ pc = "evalValid"
    /\ \E s \in Scores : valid_score' = s
    /\ evalCalls' = evalCalls + 1
    /\ pc' = "evalTrain"
    /\ UNCHANGED <<nb_epoch, patience, interval, epoch, best_score, best_epoch,
                   list_scores, wait, ckpt, fitCalls, ckptCalls, exception,
                   returned, result>>
    /\ UNCHANGED <<loadVars, recVars, seedVars>>

\* lines 156, 160: model.evaluate raises.
EvalRaises ==
    /\ pc \in {"evalValid", "evalTrain"}
    /\ evalCalls' = evalCalls + 1
    /\ exception' = "evaluate"
    /\ pc' = OnException(pc)
    /\ UNCHANGED <<nb_epoch, patience, interval, epoch, best_score, best_epoch,
                   list_scores, wait, valid_score, ckpt, fitCalls, ckptCalls,
                   returned, result>>
    /\ UNCHANGED <<loadVars, recVars, seedVars>>

\* lines 160-174 (and 176-177 after the break): model.evaluate(train_dataset,
\* ...) returns, the entry is appended and the score compared with the best.
EvalTrain ==
    /\ pc = "evalTrain"
    /\ evalCalls' = evalCalls + 1
    /\ \E training_score \in TrainScores :
         list_scores' = Append(list_scores, <<epoch + 1, valid_score, training_score>>)
    /\ IF Improved(valid_score, best_score)
         THEN /\ best_score' = valid_score
              /\ best_epoch' = epoch + 1
              /\ ckpt' = fitCalls
              /\ ckptCalls' = ckptCalls + 1
              /\ wait' = 0
              /\ pc' = "fit"
              /\ epoch' = epoch + 1
              /\ UNCHANGED <<returned, result>>
         ELSE /\ wait' = wait + 1
              /\ UNCHANGED <<best_score, best_epoch, ckpt, ckptCalls>>
              /\ IF StopNow(wait', patience)
                   THEN /\ pc' = "stopped"
                        /\ epoch' = epoch
                        /\ returned' = TRUE
                        /\ result' = list_scores'
                   ELSE /\ pc' = "fit"
                        /\ epoch' = epoch + 1
                        /\ UNCHANGED <<returned, result>>
    /\ UNCHANGED <<nb_epoch, patience, interval, valid_score, fitCalls, exception>>
    /\ UNCHANGED <<loadVars, recVars, seedVars>>

\* lines 151, 176-177: range(nb_epoch) is used up; the history is returned.
Exhaust ==
    /\ pc = "fit"
    /\ epoch >= nb_epoch
    /\ pc' = "exhausted"
    /\ returned' = TRUE
    /\ result' = list_scores
    /\ UNCHANGED <<nb_epoch, patience, interval, epoch, best_score, best_epoch,
                   list_scores, wait, valid_score, ckpt, fitCalls, evalCalls,
                   ckptCalls, exception>>
    /\ UNCHANGED <<loadVars, recVars, seedVars>>

Init == FitInit /\ LoadIdle /\ RecIdle /\ SeedIdle

Next ==
    \/ Fit
    \/ FitRaises
    \/ EvalValid
    \/ EvalRaises
    \/ EvalTrain
    \/ Exhaust

Spec == Init /\ [][Next]_vars

\* The run with fit and evaluate returning normally; the interpreter runs the
\* single thread until the function returns.
NextNoRaise ==
    \/ Fit
    \/ EvalValid
    \/ EvalTrain
    \/ Exhaust

LiveSpec == Init /\ [][NextNoRaise]_vars /\ WF_vars(NextNoRaise)

\* ------------------------------------------------------------- load_data

\* Molecular weights, and the thresholds that separate them.
Weights == 1..MaxWt
Thresholds == 1..(MaxWt + 1)
\* A SMILES string is modelled by the weight of the molecule it denotes; 0 is
\* a string RDKit cannot parse.
Smiles == 0..MaxWt
\* Values of the identifier column '1'.
Keys == {"a", "b"}

\* The rows a CSV file can hold: with a MolWt column, or without one.
CsvRows(withMolWt) ==
    [one : Keys, SMILES : Smiles, MolWt : IF withMolWt THEN Weights ELSE {None}]

CsvFiles(withMolWt) ==
    UNION {[1..n -> CsvRows(withMolWt)] : n \in 0..MaxRows}

\* line 25: Chem.MolFromSmiles, None for a string that does not parse.
Chem_MolFromSmiles(smiles) == IF smiles = 0 THEN None ELSE smiles

\* line 28: Descriptors.MolWt of a parsed molecule.
Descriptors_MolWt(mol) == mol

\* line 19: pd.read_csv, rows keyed 0..n-1; `line` is the row's place in the file.
read_csv(rows) ==
    [i \in 1..Len(rows) |->
        [index |-> i - 1, line |-> i, one |-> rows[i].one,
         SMILES |-> rows[i].SMILES, MolWt |-> rows[i].MolWt]]

\* lines 21-22: df.set_index('1').
set_index(t, first) ==
    [i \in 1..Len(t) |-> IF first THEN [t[i] EXCEPT !.index = t[i].one] ELSE t[i]]

\* lines 24-25: the molecules column, derived from SMILES.
with_molecules(t) ==
    [i \in 1..Len(t) |->
        [index |-> t[i].index, line |-> t[i].line, one |-> t[i].one,
         SMILES |-> t[i].SMILES, MolWt |-> t[i].MolWt,
         molecules |-> Chem_MolFromSmiles(t[i].SMILES)]]

\* lines 27-28: the MolWt column, derived from molecules when the file has none.
with_MolWt(t, present) ==
    [i \in 1..Len(t) |->
        IF present THEN t[i]
        ELSE [t[i] EXCEPT !.MolWt = Descriptors_MolWt(t[i].molecules)]]

\* line 28: Descriptors.MolWt raises on a molecule that did not parse.
MolWtRaises(rows, present) ==
    ~present /\ \E i \in 1..Len(rows) : Chem_MolFromSmiles(rows[i].SMILES) = None

\* Variant: a row at the threshold is kept.
KeepRow_Inclusive(w, threshold) == w <= threshold

\* line 31: the comparison of the weight filter.
KeepRow(w, threshold) == w < threshold

\* line 31: df[df['MolWt'] < MolWt].
filter_MolWt(t, threshold) ==
    SelectSeq(t, LAMBDA r : KeepRow(r.MolWt, threshold))

\* lines 19-33.
load_data(rows, present, threshold, first) ==
    filter_MolWt(
        with_MolWt(with_molecules(set_index(read_csv(rows), first)), present),
        threshold)

LoadInit ==
    /\ hasMolWt \in BOOLEAN
    /\ csv \in CsvFiles(hasMolWt)
    /\ MolWt \in Thresholds
    /\ first_index \in BOOLEAN
    /\ loadPc = "call"
    /\ loaded = <<>>

\* lines 19-33: load_data returns.
LoadData ==
    /\ loadPc = "call"
    /\ ~MolWtRaises(csv, hasMolWt)
    /\ loaded' = load_data(csv, hasMolWt, MolWt, first_index)
    /\ loadPc' = "done"
    /\ UNCHANGED <<csv, hasMolWt, MolWt, first_index>>
    /\ UNCHANGED <<fitVars, recVars, seedVars>>

\* line 28: the weight of an unparsed molecule is asked for; the error propagates.
LoadDataRaises ==
    /\ loadPc = "call"
    /\ MolWtRaises(csv, hasMolWt)
    /\ loadPc' = "raised"
    /\ UNCHANGED <<csv, hasMolWt, MolWt, first_index, loaded>>
    /\ UNCHANGED <<fitVars, recVars, seedVars>>

LoadNext ==
    \/ LoadData
    \/ LoadDataRaises

InitLoad == FitIdle /\ LoadInit /\ RecIdle /\ SeedIdle

SpecLoad == InitLoad /\ [][LoadNext]_vars

\* --------------------------------------------------------- receptor_data

\* Receptor values; 0 is the value 0.0 given to ligands that were not docked.
Values == 0..MaxVal

\* The table handed to receptor_data: rows keyed by the table's index, which
\* after set_index('1') may hold the same key more than once.
Tables ==
    UNION {[1..n -> [index : Keys, value : Values]] : n \in 0..MaxRecRows}

\* line 58: mask = df_receptor[receptor_name] == 0.0
mask(t) == [i \in 1..Len(t) |-> t[i].value = 0]

\* line 59: df[mask].index, the index labels of the masked rows.
masked_index(t) == {t[i].index : i \in {j \in 1..Len(t) : mask(t)[j]}}

\* line 59: DataFrame.drop(labels) removes every row carrying one of the labels.
drop(t, labels) == SelectSeq(t, LAMBDA r : r.index \notin labels)

\* lines 56-59.
receptor_rows(t) == drop(t, masked_index(t))

RecInit ==
    /\ df \in Tables
    /\ recPc = "call"
    /\ df_receptor = <<>>

\* lines 56-83: the rows kept are featurized, normalized and split.
ReceptorData ==
    /\ recPc = "call"
    /\ df_receptor' = receptor_rows(df)
    /\ recPc' = "done"
    /\ UNCHANGED df
    /\ UNCHANGED <<fitVars, loadVars, seedVars>>

RecNext ==
    \/ ReceptorData

InitReceptor == FitIdle /\ LoadIdle /\ RecInit /\ SeedIdle

SpecReceptor == InitReceptor /\ [][RecNext]_vars

\* --------------------------------------------------------------- set_seed

Sources == {"tensorflow", "torch", "numpy", "random"}

\* What goes wrong with a source: nothing, its import, or its seeding call.
\* random is part of the standard library: only its seeding call can raise.
Outcomes(x) == IF x = "random" THEN {"ok", "seed"} ELSE {"ok", "import", "seed"}

SeedInit ==
    /\ tensorflow \in BOOLEAN
    /\ pytorch \in BOOLEAN
    /\ fails \in {f \in [Sources -> {"ok", "import", "seed"}] :
                       \A x \in Sources : f[x] \in Outcomes(x)}
    /\ cuda \in BOOLEAN
    /\ seedPc = "tensorflow"
    /\ imported = {}
    /\ called = {}
    /\ printed = {}
    /\ propagated = FALSE

\* lines 97-102: the TensorFlow block; the bare except catches everything.
SeedTensorFlow ==
    /\ seedPc = "tensorflow"
    /\ IF ~tensorflow
         THEN UNCHANGED <<imported, called, printed>>
         ELSE /\ imported' = imported \cup {"tensorflow"}
              /\ called' = IF fails["tensorflow"] = "import" THEN called
                           ELSE called \cup {"tensorflow"}
              /\ printed' = IF fails["tensorflow"] = "ok" THEN printed
                            ELSE printed \cup {"tensorflow"}
    /\ seedPc' = "torch"
    /\ UNCHANGED <<tensorflow, pytorch, fails, cuda, propagated>>
    /\ UNCHANGED <<fitVars, loadVars, recVars>>

\* lines 105-116: the PyTorch block, with the CUDA generator when available.
SeedPyTorch ==
    /\ seedPc = "torch"
    /\ IF ~pytorch
         THEN UNCHANGED <<imported, called, printed>>
         ELSE /\ imported' = imported \cup {"torch"}
              /\ called' =
                    IF fails["torch"] = "import" THEN called
                    ELSE IF fails["torch"] = "seed" THEN called \cup {"torch"}
                    ELSE IF cuda THEN called \cup {"torch", "cuda"}
                    ELSE called \cup {"torch"}
              /\ printed' = IF fails["torch"] = "ok" THEN printed
                            ELSE printed \cup {"torch"}
    /\ seedPc' = "numpy"
    /\ UNCHANGED <<tensorflow, pytorch, fails, cuda, propagated>>
    /\ UNCHANGED <<fitVars, loadVars, recVars>>

\* lines 119-125: NumPy and random share one try block: import numpy, import
\* random, np.random.seed, random.seed, left at the first statement that raises.
SeedNumpyRandom ==
    /\ seedPc = "numpy"
    /\ imported' =
          IF fails["numpy"] = "import" THEN imported \cup {"numpy"}
          ELSE imported \cup {"numpy", "random"}
    /\ called' =
          IF fails["numpy"] = "import" THEN called
          ELSE IF fails["numpy"] = "seed" THEN called \cup {"numpy"}
          ELSE called \cup {"numpy", "random"}
    /\ printed' =
          IF fails["numpy"] = "ok" /\ fails["random"] = "ok" THEN printed
          ELSE printed \cup {"numpy"}
    /\ seedPc' = "done"
    /\ UNCHANGED <<tensorflow, pytorch, fails, cuda, propagated>>
    /\ UNCHANGED <<fitVars, loadVars, recVars>>

SeedNext ==
    \/ SeedTensorFlow
    \/ SeedPyTorch
    \/ SeedNumpyRandom

InitSeed == FitIdle /\ LoadIdle /\ RecIdle /\ SeedInit

SpecSeed == InitSeed /\ [][SeedNext]_vars

\* ------------------------------------------------ properties of the filters

\* The weight load_data filters row l of the file on: the file's MolWt column,
\* or the weight of the molecule its SMILES denotes.
WeightOfLine(l) == IF hasMolWt THEN csv[l].MolWt ELSE csv[l].SMILES

LinesBelow == {l \in 1..Len(csv) : WeightOfLine(l) < MolWt}

\* C6: load_data returns exactly the rows whose molecular weight is strictly
\* less than the threshold: no returned row has weight >= MolWt (a row of
\* weight equal to MolWt is removed) and every row of weight < MolWt is
\* returned, once and in file order.
C6_ExactlyRowsBelowThreshold ==
    loadPc = "done" =>
        /\ \A i \in 1..Len(loaded) :
              /\ ~(loaded[i].MolWt >= MolWt)
              /\ loaded[i].MolWt = WeightOfLine(loaded[i].line)
        /\ {loaded[i].line : i \in 1..Len(loaded)} = LinesBelow
        /\ Len(loaded) = Cardinality(LinesBelow)
        /\ \A i \in 1..Len(loaded) : \A j \in 1..Len(loaded) :
              i < j => loaded[i].line < loaded[j].line

\* A row below the threshold is kept and a row at the threshold is removed.
C6_Witness ==
    /\ loadPc = "done"
    /\ Len(csv) = 2
    /\ WeightOfLine(1) = MolWt
    /\ WeightOfLine(2) = MolWt - 1
    /\ Len(loaded) = 1
    /\ loaded[1].line = 2

\* C5: the rows receptor_data keeps are exactly the rows of the table whose
\* receptor value is not 0.0: none with value 0.0 is kept and none with a
\* non-zero value is removed, also when rows share an index key.
C5_KeepsExactlyNonZeroRows ==
    recPc = "done" =>
        df_receptor = SelectSeq(df, LAMBDA r : r.value /= 0)

\* ------------------------------------------------- properties of set_seed

\* The seeding of a source was attempted: its seeding call was made, or its own
\* import was tried and failed.
Attempted(x) == x \in called \/ (x \in imported /\ fails[x] = "import")

\* C7: whatever sources fail, the seeding of every other source is still
\* attempted (TensorFlow and PyTorch when their flag is true, NumPy and
\* random always) and nothing propagates to the caller.
C7_SeedingIsolated ==
    seedPc = "done" =>
        /\ ~propagated
        /\ tensorflow => Attempted("tensorflow")
        /\ pytorch => Attempted("torch")
        /\ Attempted("numpy")
        /\ Attempted("random")

\* ------------------------------------------------ properties of the trainer

\* Number of validation checks recorded so far, and their fields.
NChecks == Len(list_scores)
EpochOf(i) == list_scores[i][1]
ValidOf(i) == list_scores[i][2]
Terminated == pc \in {"stopped", "exhausted"}
IsPrefix(s, t) == Len(s) <= Len(t) /\ \A i \in 1..Len(s) : s[i] = t[i]

\* The first k checks strictly improve, the next p checks are not below the
\* k-th, and all k + p checks have been made.
ImprovesThenPlateaus(k, p) ==
    /\ NChecks >= k + p
    /\ \A i \in 2..k : ValidOf(i) < ValidOf(i - 1)
    /\ \A j \in (k + 1)..(k + p) : ValidOf(j) >= ValidOf(k)

StopsAtCheck(n, k) ==
    /\ NChecks = n
    /\ pc = "stopped"
    /\ best_epoch = EpochOf(k)
    /\ best_epoch = k * interval
    /\ returned
    /\ Len(result) = n

\* The loop made its last call at check n: no later fit or evaluate call, the
\* best epoch that of check k, and n entries in what is returned.
NoCallAfterCheck(n, k) ==
    /\ NChecks = n
    /\ fitCalls = EpochOf(n)
    /\ evalCalls = 2 * n
    /\ best_epoch = EpochOf(k)
    /\ returned => Len(result) = n

\* C1 as stated, for every patience value: k strictly improving checks and
\* then `patience` non-improving ones stop the loop exactly at check
\* k + patience (no call is made after it), with the best epoch that of
\* check k and k + patience entries returned.
C1_AnyPatience ==
    \A k \in 1..NChecks :
        ImprovesThenPlateaus(k, patience) => NoCallAfterCheck(k + patience, k)

\* C1 (amended): for patience >= 1, k strictly improving checks followed by
\* `patience` non-improving checks stop the loop exactly at check
\* k + patience; the best epoch is the epoch of check k and the returned
\* history has k + patience entries.
C1_StopsAtKPlusPatience ==
    patience >= 1 =>
        \A k \in 1..NChecks :
            ImprovesThenPlateaus(k, patience) =>
                /\ StopsAtCheck(k + patience, k)
                /\ NoCallAfterCheck(k + patience, k)

\* The shape of the scenario 5,4,3,3,3: three improvements, two ties.
C1_Witness ==
    /\ pc = "stopped"
    /\ patience = 2
    /\ interval = 1
    /\ nb_epoch = 5
    /\ NChecks = 5
    /\ ImprovesThenPlateaus(3, 2)
    /\ ValidOf(4) = ValidOf(3)
    /\ ValidOf(5) = ValidOf(3)
    /\ best_epoch = 3

\* No check after the first is strictly lower than the first.
NeverBelowFirst == \A i \in 2..NChecks : ValidOf(i) >= ValidOf(1)

\* C2 as stated, for every patience value: with no score below the first,
\* the run makes exactly `patience` checks beyond the first and no call after
\* the last of them, and the best epoch stays that of the first check.
C2_AnyPatience ==
    (NChecks >= 1 /\ NeverBelowFirst) =>
        /\ NChecks <= 1 + patience
        /\ best_epoch = EpochOf(1)
        /\ NChecks = 1 + patience =>
              fitCalls = EpochOf(NChecks) /\ evalCalls = 2 * NChecks

\* C2 (amended): for patience >= 1, if no validation score after the first
\* is strictly lower than the first, at most `patience` further checks are
\* made, the run is stopped exactly when the (1 + patience)-th check is done,
\* and the best epoch remains the epoch of the first check.
C2_StopsAfterPatienceChecks ==
    (patience >= 1 /\ NChecks >= 1 /\ NeverBelowFirst) =>
        /\ NChecks <= 1 + patience
        /\ best_epoch = EpochOf(1)
        /\ best_epoch = interval
        /\ (NChecks = 1 + patience) <=> (pc = "stopped")
        /\ NChecks = 1 + patience =>
              fitCalls = EpochOf(NChecks) /\ evalCalls = 2 * NChecks

C2_Witness ==
    /\ pc = "stopped"
    /\ patience = 2
    /\ NChecks = 3
    /\ NeverBelowFirst
    /\ ValidOf(2) > ValidOf(1)
    /\ ValidOf(3) < ValidOf(2)

\* Epochs whose iteration has passed its validation block: the epoch being
\* evaluated, and an epoch whose fit or evaluate raised, are not among them.
CheckedEpochs ==
    IF pc \in {"fit", "stopped", "exhausted"} THEN fitCalls ELSE fitCalls - 1

C3_Entries ==
    /\ \A e \in 1..CheckedEpochs :
          Cardinality({i \in 1..NChecks : EpochOf(i) = e})
              = (IF e % interval = 0 THEN 1 ELSE 0)
    /\ \A i \in 1..NChecks :
          /\ EpochOf(i) \in 1..CheckedEpochs
          /\ ValidOf(i) \in Scores
          /\ list_scores[i][3] \in TrainScores
    /\ \A i \in 1..NChecks : \A j \in 1..NChecks : i < j => EpochOf(i) < EpochOf(j)

C3_Step ==
    /\ IsPrefix(list_scores, list_scores')
    /\ Len(list_scores') <= NChecks + 1
    /\ Len(list_scores') = NChecks + 1 =>
          /\ list_scores'[NChecks + 1][1] = fitCalls
          /\ list_scores'[NChecks + 1][2] = valid_score

\* C3: at every point of a run the history is append-only and holds exactly
\* one (epoch, validation score, training score) entry for each epoch that
\* has been trained and checked and whose 1-based number is divisible by
\* interval, in strictly increasing epoch order, and no other entry.
C3_HistoryPerInterval == []C3_Entries /\ [][C3_Step]_vars

C3_Witness ==
    /\ interval = 2
    /\ fitCalls = 4
    /\ pc = "fit"
    /\ NChecks = 2
    /\ EpochOf(1) = 2
    /\ EpochOf(2) = 4

\* Index of the earliest check attaining the minimum validation score.
EarliestMin ==
    CHOOSE i \in 1..NChecks :
        /\ \A j \in 1..NChecks : ValidOf(i) <= ValidOf(j)
        /\ \A j \in 1..(i - 1) : ValidOf(j) > ValidOf(i)

C4_Best ==
    IF NChecks = 0
      THEN ckpt = None /\ best_score = None /\ best_epoch = None /\ ckptCalls = 0
      ELSE /\ ckpt = EpochOf(EarliestMin)
           /\ best_epoch = EpochOf(EarliestMin)
           /\ best_score = ValidOf(EarliestMin)

C4_Step ==
    /\ ckptCalls' \in {ckptCalls, ckptCalls + 1}
    /\ Len(list_scores') = NChecks + 1 =>
          ((ckptCalls' = ckptCalls + 1) <=>
              \A j \in 1..NChecks : list_scores'[NChecks + 1][2] < ValidOf(j))
    /\ Len(list_scores') = NChecks => ckptCalls' = ckptCalls /\ ckpt' = ckpt

\* C4: a checkpoint is written at a check iff its validation score is
\* strictly lower than every earlier one (or it is the first check); hence
\* model.ckpt holds the model state of the earliest epoch attaining the
\* minimum validation score, and best_score / best_epoch are that minimum and
\* that epoch.
C4_CheckpointIsEarliestBest == []C4_Best /\ [][C4_Step]_vars

C4_Witness ==
    /\ NChecks = 4
    /\ ValidOf(1) = 2
    /\ ValidOf(2) = 1
    /\ ValidOf(3) = 1
    /\ ValidOf(4) = 2
    /\ ckptCalls = 2
    /\ ckpt = EpochOf(2)

C8_State ==
    exception /= "none" => pc = "raised" /\ ~returned /\ result = <<>>

C8_Step ==
    exception /= "none" =>
        /\ fitCalls' = fitCalls
        /\ evalCalls' = evalCalls
        /\ ckptCalls' = ckptCalls
        /\ returned' = returned
        /\ exception' = exception

\* C8: an exception raised by model.fit or model.evaluate aborts the run at
\* once and propagates: afterwards no fit, evaluate or save_checkpoint call is
\* made (so the failing call is not retried) and no history is returned.
C8_ExceptionAborts == []C8_State /\ [][C8_Step]_vars

C8_Witness ==
    /\ exception = "evaluate"
    /\ pc = "raised"
    /\ NChecks = 2
    /\ fitCalls = 3
    /\ fitCalls < nb_epoch

C9_State ==
    /\ fitCalls <= nb_epoch
    /\ fitCalls = (IF pc \in {"evalValid", "evalTrain", "stopped"} THEN epoch + 1 ELSE epoch)
    /\ returned <=> Terminated
    /\ Terminated => result = list_scores
    /\ pc = "exhausted" => fitCalls = nb_epoch
    /\ pc = "stopped" =>
          /\ NChecks >= 1
          /\ EpochOf(NChecks) = fitCalls
          /\ wait >= patience
          /\ patience >= 1 => wait = patience

C9_Step ==
    /\ Terminated => UNCHANGED vars
    /\ fitCalls' \in {fitCalls, fitCalls + 1}
    /\ (pc /= "stopped" /\ pc' = "stopped") <=>
          (Len(list_scores') = NChecks + 1 /\ wait' = wait + 1 /\ wait' >= patience)

\* C9: every run in which fit and evaluate return ends in exactly one of two
\* ways: stopped early, at the first check where a non-improvement brings the
\* counter to `patience`, with no further call; or exhausted, after exactly
\* nb_epoch fit calls. fit is called once per epoch 1..last, never more than
\* nb_epoch times, and the full history is returned.
C9_TerminatesStoppedOrExhausted ==
    []C9_State /\ [][C9_Step]_vars /\ <>Terminated

C9_Witness ==
    /\ pc = "stopped"
    /\ patience = 2
    /\ fitCalls = 3
    /\ nb_epoch = 4
    /\ Len(result) = 3

\* Index of the last check that was strictly lower than every earlier check.
LastImprovement ==
    CHOOSE i \in 1..NChecks :
        /\ \A j \in 1..(i - 1) : ValidOf(j) > ValidOf(i)
        /\ \A m \in (i + 1)..NChecks : \E j \in 1..(m - 1) : ValidOf(j) <= ValidOf(m)

C10_Wait ==
    wait = (IF NChecks = 0 THEN 0 ELSE NChecks - LastImprovement)

C10_Step ==
    Len(list_scores') = NChecks + 1 =>
        LET v == list_scores'[NChecks + 1][2] IN
        IF NChecks >= 1 /\ v >= best_score
          THEN /\ wait' = wait + 1
               /\ best_score' = best_score
               /\ best_epoch' = best_epoch
               /\ ckptCalls' = ckptCalls
               /\ ckpt' = ckpt
          ELSE wait' = 0

\* C10: the counter equals the number of consecutive checks since the last
\* check strictly lower than the best so far; a tie with the best, or a score
\* lower than the previous check but not lower than the best, is a
\* non-improvement (counter + 1, best and checkpoint unchanged); a strict
\* improvement resets the counter to 0.
C10_WaitCountsNonImprovements == []C10_Wait /\ [][C10_Step]_vars

\* A worse check, then one lower than it that only ties the best.
C10_Witness ==
    /\ NChecks = 3
    /\ ValidOf(1) = 1
    /\ ValidOf(2) = 2
    /\ ValidOf(3) = 1
    /\ wait = 2
    /\ best_epoch = EpochOf(1)
    /\ ckptCalls = 1

====
